---- MODULE Spec2Model ----
(***************************************************************************)
(* ScatterPlot.Dataset.create_figure of multiqc/plots/plotly/scatter.py:   *)
(* the outlier selection that annotates points (lines 80-112) and the      *)
(* legend pass that emits one trace per point (lines 116-171).             *)
(*                                                                         *)
(* Strings are sequences of code points, so that len(), slicing, sorted()  *)
(* and ", ".join() are computed, not assumed.  Coordinates are integers    *)
(* and the Z-score comparisons are carried out exactly, as comparisons of  *)
(* squares.  The threshold is kept as the number k of fifths it stands     *)
(* for; the rounding of the repeated float addition `threshold += 0.2` is  *)
(* kept as the sign of (float value - k/5), see Drift.                     *)
(***************************************************************************)
EXTENDS Integers, Sequences, FiniteSets, TLC

VARIABLES
    points,               \* self.points, mutated in place by the selector
    pc,                   \* position inside create_figure
    n_annotated,          \* local n_annotated (lines 81, 112)
    threshold,            \* local threshold, in fifths (line 99)
    n_outliers,           \* local n_outliers (line 101)
    names_by_legend_key,  \* local defaultdict(set) (line 116)
    in_legend,            \* local set of legend keys (line 122)
    traces,               \* fig.data: the traces added by fig.add_trace
    before,               \* history: self.points when this call started
    n_before,             \* history: n_annotated as counted at line 81
    tried,                \* history: thresholds for which line 101 ran
    branch,               \* history: which way the selector went
    reran,                \* history: create_figure was called before
    prev                  \* history: n_before, threshold, branch of that call

vars == <<points, pc, n_annotated, threshold, n_outliers, names_by_legend_key,
          in_legend, traces, before, n_before, tried, branch, reran, prev>>

----------------------------------------------------------------------------
(* Program constants *)

MAX_ANNOTATIONS == 10
MAX_WIDTH == 60
\* threshold = 1.0 and the loop bound 6.0, in fifths
ThresholdStart == 5
ThresholdEnd == 30

(* Bounds of the model *)
MaxSelPts == 3     \* longest dataset of the exhaustive selector family
MaxLegPts == 3     \* longest dataset of the exhaustive legend family

----------------------------------------------------------------------------
(* Optional values: Python's None / absent key *)

NoText == [has |-> FALSE, text |-> <<>>]
Text(s) == [has |-> TRUE, text |-> s]
NoColor == "None"
NoNum == [has |-> FALSE, val |-> 0]
Num(n) == [has |-> TRUE, val |-> n]

\* Python truthiness of an optional string: None and "" are falsy
Truthy(o) == o.has /\ o.text # <<>>

----------------------------------------------------------------------------
(* The outlier selector *)

\* "annotation" in el
HasAnnotation(el) == el.annotation.has

\* len([el for el in self.points if "annotation" in el])
CountAnnotated(pts) == Cardinality({i \in DOMAIN pts : HasAnnotation(pts[i])})

\* mutant: every point is a candidate, whatever its annotate field
IsCandidateAll(el) == TRUE

\* x.get("annotate", True) is not False
IsCandidate(el) == el.annotate # FALSE

\* the indices i of the list `points` of line 85
CandidateIdx(pts) == {i \in DOMAIN pts : IsCandidate(pts[i])}

\* what a candidate adds to a sum; which: 1 x, 2 x^2, 3 y, 4 y^2
Term(p, which) ==
    IF ~IsCandidate(p) THEN 0
    ELSE CASE which = 1 -> p.x
           [] which = 2 -> p.x * p.x
           [] which = 3 -> p.y
           [] OTHER -> p.y * p.y

RECURSIVE SumOver(_, _, _, _)
\* the sum over the candidates among pts[lo..hi] (summed by halves, which
\* keeps the evaluation shallow; integer sums do not depend on the order)
SumOver(pts, which, lo, hi) ==
    IF lo > hi THEN 0
    ELSE IF lo = hi THEN Term(pts[lo], which)
    ELSE LET mid == (lo + hi) \div 2
         IN SumOver(pts, which, lo, mid) + SumOver(pts, which, mid + 1, hi)

\* What np.mean and np.std are computed from: N, sum and sum of squares per
\* axis.  mean = S/N and std^2 = (N*Q - S^2)/N^2, so N^2 * std^2 = N*Q - S^2.
Stats(pts) ==
    LET N  == Cardinality(CandidateIdx(pts))
        Sx == SumOver(pts, 1, 1, Len(pts))
        Qx == SumOver(pts, 2, 1, Len(pts))
        Sy == SumOver(pts, 3, 1, Len(pts))
        Qy == SumOver(pts, 4, 1, Len(pts))
    IN [N |-> N, Sx |-> Sx, Sy |-> Sy,
        Vx |-> N * Qx - Sx * Sx, Vy |-> N * Qy - Sy * Sy]

\* x_std == 0 and y_std == 0.  np.std of an empty array is nan, and nan == 0
\* is False, so a dataset without candidates takes the else branch.
ZeroSpread(st) == st.N > 0 /\ st.Vx = 0 /\ st.Vy = 0

\* Sign of (the float that `threshold` holds) - k/5 after k - 5 additions of
\* 0.2 to 1.0 in IEEE-754 doubles: 1.0 is exact; 1.2 .. 2.4 come out just
\* below k/5 (1.5999999999999999, 1.9999999999999998, ...); 2.6 .. 6.0 come
\* out just above (3.0000000000000004, 5.8000000000000025,
\* 6.000000000000003).
Drift(k) == IF k = ThresholdStart THEN 0 ELSE IF k <= 12 THEN -1 ELSE 1

\* threshold <= 6.0
LoopGuard(k) == k < ThresholdEnd \/ (k = ThresholdEnd /\ Drift(k) <= 0)

\* z > threshold for z = |v - mean| / std on one axis; D = N*v - S, V = the
\* axis' N^2 * std^2.  A zero std gives the score 0 (np.zeros_like).  When z
\* is exactly k/5 the float threshold decides by its rounding.
ScoreExceeds(D, V, k) ==
    /\ V > 0
    /\ \/ 25 * D * D > k * k * V
       \/ 25 * D * D = k * k * V /\ Drift(k) < 0

\* (x_z_score > threshold) | (y_z_score > threshold) for one candidate
Exceeds(el, st, k) ==
    \/ ScoreExceeds(st.N * el.x - st.Sx, st.Vx, k)
    \/ ScoreExceeds(st.N * el.y - st.Sy, st.Vy, k)

\* the candidates beyond threshold k
OutlierIdx(pts, st, k) == {i \in CandidateIdx(pts) : Exceeds(pts[i], st, k)}

\* np.count_nonzero((x_z_scores > threshold) | (y_z_scores > threshold))
CountOutliers(pts, st, k) == Cardinality(OutlierIdx(pts, st, k))

\* mutant: the cap test off by two
WithinCapLoose(n, nout) == n + nout <= MAX_ANNOTATIONS + 2

\* mutant: the cap test strict
WithinCapStrict(n, nout) == n + nout < MAX_ANNOTATIONS

\* n_annotated + n_outliers <= MAX_ANNOTATIONS
WithinCap(n, nout) == n + nout <= MAX_ANNOTATIONS

\* point["annotation"] = point["name"]
Annotate(el) == [el EXCEPT !.annotation = Text(el.name)]

\* mutant: the single candidate is left alone
AnnotateSingleNever(pts) == pts

\* lines 92-94: a single candidate is annotated, several coinciding are not
AnnotateSingle(pts) ==
    IF Cardinality(CandidateIdx(pts)) = 1
    THEN [i \in DOMAIN pts |-> IF IsCandidate(pts[i]) THEN Annotate(pts[i]) ELSE pts[i]]
    ELSE pts

\* mutant: the comparison of line 110 flipped
PassesThresholdFlipped(el, st, k) == ~Exceeds(el, st, k)

\* x_z_score > threshold or y_z_score > threshold (line 110)
PassesThreshold(el, st, k) == Exceeds(el, st, k)

\* lines 108-111
AnnotateOutliers(pts, st, k) ==
    [i \in DOMAIN pts |->
        IF IsCandidate(pts[i]) /\ PassesThreshold(pts[i], st, k)
        THEN Annotate(pts[i]) ELSE pts[i]]

----------------------------------------------------------------------------
(* The legend builder and the trace emission *)

\* (el.get("color"), el.get("marker_size"), el.get("marker_line_width"),
\*  el.get("group"))
LegendKey(el) == <<el.color, el.marker_size, el.marker_line_width, el.group>>

\* names_by_legend_key[legend_key].add(el["name"]) on a defaultdict(set)
AddName(nbk, el) ==
    LET key == LegendKey(el)
    IN IF key \in DOMAIN nbk
       THEN [nbk EXCEPT ![key] = @ \cup {el.name}]
       ELSE nbk @@ (key :> {el.name})

\* the dict after the adds that gave a and the adds that gave b
MergeNames(a, b) ==
    [key \in DOMAIN a \cup DOMAIN b |->
        (IF key \in DOMAIN a THEN a[key] ELSE {}) \cup
        (IF key \in DOMAIN b THEN b[key] ELSE {})]

RECURSIVE CollectNamesFrom(_, _, _)
\* the loop of lines 117-119 over pts[lo..hi] (by halves, which keeps the
\* evaluation shallow; the adds to the sets commute)
CollectNamesFrom(pts, lo, hi) ==
    IF lo > hi THEN <<>>
    ELSE IF lo = hi THEN AddName(<<>>, pts[lo])
    ELSE LET mid == (lo + hi) \div 2
         IN MergeNames(CollectNamesFrom(pts, lo, mid), CollectNamesFrom(pts, mid + 1, hi))

\* lines 116-119: for el in self.points: ...
CollectNames(pts) == CollectNamesFrom(pts, 1, Len(pts))

RECURSIVE StrLess(_, _)
\* Python's str <: by code point, a proper prefix first
StrLess(a, b) ==
    IF b = <<>> THEN FALSE
    ELSE IF a = <<>> THEN TRUE
    ELSE IF Head(a) # Head(b) THEN Head(a) < Head(b)
    ELSE StrLess(Tail(a), Tail(b))

RECURSIVE Sorted(_)
\* sorted(names) of a set of strings
Sorted(S) ==
    IF S = {} THEN <<>>
    ELSE LET m == CHOOSE a \in S : \A b \in S \ {a} : StrLess(a, b)
         IN <<m>> \o Sorted(S \ {m})

RECURSIVE Join(_)
\* ", ".join(names)
Join(names) ==
    IF names = <<>> THEN <<>>
    ELSE IF Len(names) = 1 THEN names[1]
    ELSE names[1] \o <<44, 32>> \o Join(Tail(names))

\* if group: label = f"{group}: {label}"
WithGroup(group, label) ==
    IF Truthy(group) THEN group.text \o <<58, 32>> \o label ELSE label

\* mutant: the label is cut and no ellipsis is appended
CropBare(label) ==
    IF Len(label) > MAX_WIDTH THEN SubSeq(label, 1, MAX_WIDTH) ELSE label

\* if len(label) > MAX_WIDTH: label = label[:MAX_WIDTH] + "..."
Crop(label) ==
    IF Len(label) > MAX_WIDTH
    THEN SubSeq(label, 1, MAX_WIDTH) \o <<46, 46, 46>>
    ELSE label

\* lines 135-141
LegendLabel(el, nbk) == Crop(WithGroup(el.group, Join(Sorted(nbk[LegendKey(el)]))))

\* mutant: a key already in the legend is shown again
ShowInLegendAgain(el, inl) == ~el.hide_in_legend

\* mutant: hide_in_legend is not looked at
ShowInLegendHidden(el, inl) == LegendKey(el) \notin inl

\* layout.showlegend (set True at line 120) and not
\* element.get("hide_in_legend"), and key not in in_legend
ShowInLegend(el, inl) == ~el.hide_in_legend /\ LegendKey(el) \notin inl

\* the go.Scatter of lines 145-170 for one element
Trace(el, show, nbk, nann) ==
    [x          |-> el.x,
     y          |-> el.y,
     name       |-> IF show THEN LegendLabel(el, nbk) ELSE el.name,
     text       |-> IF Truthy(el.annotation) THEN el.annotation.text ELSE el.name,
     showlegend |-> show,
     mode       |-> IF Truthy(el.annotation) THEN "markers+text" ELSE "default",
     color      |-> IF el.color # NoColor THEN el.color ELSE "rgba(124, 181, 236, .5)",
     size       |-> IF el.marker_size.has THEN el.marker_size.val ELSE 10,
     line_width |-> IF el.marker_line_width.has THEN el.marker_line_width.val ELSE 1,
     line_faded |-> nann > 0]

\* one turn of the loop of lines 123-171
EmitOne(el, inl, nbk, nann) ==
    LET show == ShowInLegend(el, inl)
    IN [traces    |-> <<Trace(el, show, nbk, nann)>>,
        in_legend |-> IF show THEN inl \cup {LegendKey(el)} ELSE inl]

RECURSIVE EmitFrom(_, _, _, _, _, _)
\* lines 123-171 over pts[lo..hi], in order: the first half of the range,
\* then the second half with the in_legend the first half left
EmitFrom(pts, lo, hi, inl, nbk, nann) ==
    IF lo > hi THEN [traces |-> <<>>, in_legend |-> inl]
    ELSE IF lo = hi THEN EmitOne(pts[lo], inl, nbk, nann)
    ELSE LET mid   == (lo + hi) \div 2
             left  == EmitFrom(pts, lo, mid, inl, nbk, nann)
             right == EmitFrom(pts, mid + 1, hi, left.in_legend, nbk, nann)
         IN [traces |-> left.traces \o right.traces, in_legend |-> right.in_legend]

----------------------------------------------------------------------------
(* The datasets create_figure is run on *)

NameS == <<115>>
NoteN == <<110>>

SelPoint(c, annotate, ann) ==
    [x |-> c[1], y |-> c[2], name |-> NameS, color |-> NoColor,
     marker_size |-> NoNum, marker_line_width |-> NoNum, group |-> NoText,
     annotate |-> annotate, hide_in_legend |-> FALSE, annotation |-> ann]

SelCoords == {<<0, 0>>, <<4, 0>>}

SelPoints ==
    {SelPoint(c, a, ann) : c \in SelCoords, a \in BOOLEAN,
                           ann \in {NoText, Text(NoteN)}}

\* pts is a dataset of at most MaxSelPts such points
SmallDataset(pts) == \E m \in 0..MaxSelPts : pts \in [1..m -> SelPoints]

\* nPre points (candidates or not, annotated by the caller or not, at the
\* origin or spread over x = 1, -1, 1, ...), then nBulk candidates at the
\* origin, then the candidates of `tail`
BulkDataset(nPre, preCand, preAnn, spread, nBulk, tail) ==
    [i \in 1..(nPre + nBulk + Len(tail)) |->
        IF i <= nPre
        THEN SelPoint(<<IF i % 2 = 1 THEN spread ELSE 0 - spread, 0>>, preCand,
                      IF preAnn THEN Text(NoteN) ELSE NoText)
        ELSE IF i <= nPre + nBulk THEN SelPoint(<<0, 0>>, TRUE, NoText)
        ELSE SelPoint(tail[i - nPre - nBulk], TRUE, NoText)]

PreCounts == {0, 3, 6, 9, 10, 11}
BulkCounts == {1, 5, 27, 36}
Tails == {<<>>, << <<1, 0>> >>, << <<1, 0>>, <<0, 1>> >>}

BulkDatasets ==
    {BulkDataset(nPre, preCand, preAnn, spread, nBulk, tail) :
        nPre \in PreCounts, preCand \in BOOLEAN, preAnn \in BOOLEAN,
        spread \in {0, 1}, nBulk \in BulkCounts, tail \in Tails}
    \cup
    \* 70 candidates with Z-scores 8.31, 6.03 and 5.80
    {BulkDataset(nPre, FALSE, TRUE, 0, 67, << <<1, 0>>, <<0, 26>>, <<0, 0 - 25>> >>) :
        nPre \in {0, 9}}
    \cup
    \* 35 candidates, two of them with Z-score 5.83
    {BulkDataset(9, FALSE, TRUE, 0, 33, << <<1, 0>>, <<0, 1>> >>)}

\* three long names: 28, 29 and 30 characters, beginning with c, a and b
LongName(first, n) == [i \in 1..n |-> IF i = 1 THEN first ELSE 120]
LegNames == {LongName(99, 28), LongName(97, 29), LongName(98, 30)}

LegPoint(i, name, color, size, group, hide) ==
    [x |-> 0, y |-> 0, name |-> name, color |-> color,
     marker_size |-> size, marker_line_width |-> NoNum, group |-> group,
     annotate |-> TRUE, hide_in_legend |-> hide, annotation |-> NoText]

LegStyles == {<<NoColor, NoNum, NoText>>, <<"red", Num(8), Text(<<71>>)>>}

\* pts is a dataset of 1..MaxLegPts points over the names, the two styles
\* and hide_in_legend
LegendDataset(pts) ==
    \E m \in 1..MaxLegPts :
        \E f \in [1..m -> LegNames \X LegStyles \X BOOLEAN] :
            pts = [i \in 1..m |->
                     LegPoint(i, f[i][1], f[i][2][1], f[i][2][2], f[i][2][3], f[i][3])]

\* three points of one style named A, B, C and two of a group "Grp" named
\* D, E; and two points whose group is the empty string
LegendScenarios ==
    { <<LegPoint(1, <<66>>, "red", Num(10), NoText, FALSE),
        LegPoint(2, <<67>>, "red", Num(10), NoText, FALSE),
        LegPoint(3, <<65>>, "red", Num(10), NoText, FALSE),
        LegPoint(4, <<69>>, "blue", Num(8), Text(<<71, 114, 112>>), FALSE),
        LegPoint(5, <<68>>, "blue", Num(8), Text(<<71, 114, 112>>), FALSE)>> }
    \cup
    { <<LegPoint(1, <<66>>, "red", NoNum, Text(<<>>), h),
        LegPoint(2, <<65>>, "red", NoNum, Text(<<>>), FALSE)>> : h \in BOOLEAN }

\* the datasets create_figure is first called on
Dataset(pts) ==
    \/ SmallDataset(pts)
    \/ pts \in BulkDatasets
    \/ LegendDataset(pts)
    \/ pts \in LegendScenarios

----------------------------------------------------------------------------
(* create_figure as a state machine *)

NoNames == <<>>

\* the locals of a call before any of its statements has run
FreshLocals ==
    /\ n_annotated = 0
    /\ threshold = 0
    /\ n_outliers = 0
    /\ names_by_legend_key = NoNames
    /\ in_legend = {}
    /\ traces = <<>>
    /\ n_before = 0
    /\ tried = <<>>
    /\ branch = "none"

Init ==
    /\ Dataset(points)
    /\ before = points
    /\ pc = "start"
    /\ reran = FALSE
    /\ prev = [n |-> 0, threshold |-> 0, branch |-> "none"]
    /\ FreshLocals

\* lines 81-82, n_annotated >= MAX_ANNOTATIONS: the selector is skipped
SkipSelector ==
    /\ pc = "start"
    /\ ~(CountAnnotated(points) < MAX_ANNOTATIONS)
    /\ n_annotated' = CountAnnotated(points)
    /\ n_before' = CountAnnotated(points)
    /\ branch' = "skip"
    /\ pc' = "legend"
    /\ UNCHANGED <<points, threshold, n_outliers, names_by_legend_key, in_legend,
                   traces, before, tried, reran, prev>>

\* lines 81-94 and 112: all candidates coincide
Coincide ==
    /\ pc = "start"
    /\ CountAnnotated(points) < MAX_ANNOTATIONS
    /\ ZeroSpread(Stats(points))
    /\ points' = AnnotateSingle(points)
    /\ n_annotated' = CountAnnotated(points')
    /\ n_before' = CountAnnotated(points)
    /\ branch' = "coincide"
    /\ pc' = "legend"
    /\ UNCHANGED <<threshold, n_outliers, names_by_legend_key, in_legend, traces,
                   before, tried, reran, prev>>

\* lines 81-99: the Z-scores are computed and the scan starts at 1.0
StartScan ==
    /\ pc = "start"
    /\ CountAnnotated(points) < MAX_ANNOTATIONS
    /\ ~ZeroSpread(Stats(points))
    /\ n_annotated' = CountAnnotated(points)
    /\ n_before' = CountAnnotated(points)
    /\ threshold' = ThresholdStart
    /\ branch' = "scan"
    /\ pc' = "scan"
    /\ UNCHANGED <<points, n_outliers, names_by_legend_key, in_legend, traces,
                   before, tried, reran, prev>>

\* lines 100-104: one turn of the loop that ends in break
ScanBreak ==
    /\ pc = "scan"
    /\ LoopGuard(threshold)
    /\ n_outliers' = CountOutliers(points, Stats(points), threshold)
    /\ WithinCap(n_annotated, n_outliers')
    /\ tried' = Append(tried, threshold)
    /\ branch' = "break"
    /\ pc' = "annotate"
    /\ UNCHANGED <<points, n_annotated, threshold, names_by_legend_key, in_legend,
                   traces, before, n_before, reran, prev>>

\* lines 100-106: one turn of the loop that ends in threshold += 0.2
ScanNext ==
    /\ pc = "scan"
    /\ LoopGuard(threshold)
    /\ n_outliers' = CountOutliers(points, Stats(points), threshold)
    /\ ~WithinCap(n_annotated, n_outliers')
    /\ tried' = Append(tried, threshold)
    /\ threshold' = threshold + 1
    /\ UNCHANGED <<points, pc, n_annotated, names_by_legend_key, in_legend, traces,
                   before, n_before, branch, reran, prev>>

\* line 100: threshold <= 6.0 is false, the loop ends without break
ScanEnd ==
    /\ pc = "scan"
    /\ ~LoopGuard(threshold)
    /\ branch' = "exhausted"
    /\ pc' = "annotate"
    /\ UNCHANGED <<points, n_annotated, threshold, n_outliers, names_by_legend_key,
                   in_legend, traces, before, n_before, tried, reran, prev>>

\* lines 108-112
MarkOutliers ==
    /\ pc = "annotate"
    /\ points' = AnnotateOutliers(points, Stats(points), threshold)
    /\ n_annotated' = CountAnnotated(points')
    /\ pc' = "legend"
    /\ UNCHANGED <<threshold, n_outliers, names_by_legend_key, in_legend, traces,
                   before, n_before, tried, branch, reran, prev>>

\* lines 116-173: the names per key, then one trace per point, in order
BuildLegend ==
    /\ pc = "legend"
    /\ names_by_legend_key' = CollectNames(points)
    /\ LET out == EmitFrom(points, 1, Len(points), {}, names_by_legend_key', n_annotated)
       IN /\ traces' = out.traces
          /\ in_legend' = out.in_legend
    /\ pc' = "done"
    /\ UNCHANGED <<points, n_annotated, threshold, n_outliers, before, n_before,
                   tried, branch, reran, prev>>

\* create_figure is called again on the same dataset (its points as the
\* previous call left them)
CallAgain ==
    /\ pc = "done"
    /\ before' = points
    /\ reran' = TRUE
    /\ prev' = [n |-> n_before, threshold |-> threshold, branch |-> branch]
    /\ pc' = "start"
    /\ n_annotated' = 0
    /\ threshold' = 0
    /\ n_outliers' = 0
    /\ names_by_legend_key' = NoNames
    /\ in_legend' = {}
    /\ traces' = <<>>
    /\ n_before' = 0
    /\ tried' = <<>>
    /\ branch' = "none"
    /\ UNCHANGED points

Next ==
    \/ SkipSelector
    \/ Coincide
    \/ StartScan
    \/ ScanBreak
    \/ ScanNext
    \/ ScanEnd
    \/ MarkOutliers
    \/ BuildLegend
    \/ CallAgain

Spec == Init /\ [][Next]_vars

----------------------------------------------------------------------------
(* What the properties are stated in *)

\* the outlier-selection step of the current call has run
SelectorDone == pc \in {"legend", "done"}

\* the selector went through the threshold scan
Scanned == branch \in {"break", "exhausted"}

AnnotatedIdx(pts) == {i \in DOMAIN pts : pts[i].annotation.has}

\* the points with annotate = False
ExcludedIdx(pts) == {i \in DOMAIN pts : pts[i].annotate = FALSE}

\* the scanned range 1.0, 1.2, ..., 6.0
Range == ThresholdStart..ThresholdEnd

\* candidates of the dataset as it was before the step whose x- or y-Z-score
\* exceeds k/5 (with the rounding of the float threshold)
BeyondBefore(k) ==
    LET st == Stats(before)
    IN {i \in DOMAIN before : before[i].annotate # FALSE /\ Exceeds(before[i], st, k)}

NeverRemoves == \A i \in AnnotatedIdx(before) : points[i].annotation.has

SameKey(i, j) == LegendKey(points[i]) = LegendKey(points[j])

----------------------------------------------------------------------------
\* C1 (as stated): after the outlier-selection step at most MAX_ANNOTATIONS
\* points carry an annotation, unless the points annotated beforehand alone
\* exceeded 10; and the step removes no annotation.
C1_CapUnlessPreExceeded ==
    SelectorDone =>
        /\ \/ Cardinality(AnnotatedIdx(points)) <= 10
           \/ Cardinality(AnnotatedIdx(before)) > 10
        /\ NeverRemoves

\* C1 (amended): after the step at most 10 points carry an annotation, unless
\* the points annotated beforehand alone exceeded 10, or even at 6.0 the
\* count of annotated points plus the count of candidates beyond the
\* threshold exceeds 10 (the scan finds no threshold); and the step removes
\* no annotation.
C1_CapUnlessScanFails ==
    SelectorDone =>
        /\ \/ Cardinality(AnnotatedIdx(points)) <= 10
           \/ Cardinality(AnnotatedIdx(before)) > 10
           \/ Cardinality(AnnotatedIdx(before)) + Cardinality(BeyondBefore(ThresholdEnd)) > 10
        /\ NeverRemoves

\* the scan had to raise the threshold to stay within the cap, and the step
\* then added an annotation
C1_Witness ==
    /\ SelectorDone
    /\ branch = "break"
    /\ Len(tried) > 1
    /\ Cardinality(AnnotatedIdx(points)) > Cardinality(AnnotatedIdx(before))
    /\ Cardinality(AnnotatedIdx(points)) = 10

\* C2: a point whose annotate is False has the same annotation field (absent
\* or present, and its text) after the step as before it.
C2_ExcludedUntouched ==
    \A i \in ExcludedIdx(before) : points[i].annotation = before[i].annotation

\* the step annotated a candidate while an annotate = False point without an
\* annotation lies away from the origin
C2_Witness ==
    /\ SelectorDone
    /\ \E i \in ExcludedIdx(before), j \in DOMAIN before :
          /\ ~before[i].annotation.has
          /\ before[i].x # 0
          /\ points[j].annotation # before[j].annotation

\* C3 (as stated): if the dataset has exactly one candidate, that point
\* carries an annotation after the step.
C3_SingleCandidateAnnotated ==
    (SelectorDone /\ Cardinality(DOMAIN before \ ExcludedIdx(before)) = 1) =>
        \A i \in DOMAIN before \ ExcludedIdx(before) : points[i].annotation.has

\* C3 (amended): if the dataset has exactly one candidate and fewer than 10
\* points carry an annotation before the step, the candidate carries its name
\* as annotation after the step; with 10 or more annotated beforehand the
\* step changes nothing.
C3_SingleCandidateUnderCap ==
    (SelectorDone /\ Cardinality(DOMAIN before \ ExcludedIdx(before)) = 1) =>
        IF Cardinality(AnnotatedIdx(before)) < 10
        THEN \A i \in DOMAIN before \ ExcludedIdx(before) :
                points[i].annotation = [has |-> TRUE, text |-> before[i].name]
        ELSE points = before

\* the only candidate, not annotated beforehand, among annotated
\* annotate = False points, is annotated by the step
C3_Witness ==
    /\ SelectorDone
    /\ Cardinality(DOMAIN before \ ExcludedIdx(before)) = 1
    /\ \E j \in ExcludedIdx(before) : before[j].annotation.has
    /\ \E i \in DOMAIN before \ ExcludedIdx(before) :
          ~before[i].annotation.has /\ points[i].annotation.has

\* C4 (as stated): for every legend key among the points, exactly one of the
\* traces of the points with that key has showlegend = True.
C4_ExactlyOneShown ==
    pc = "done" =>
        \A i \in DOMAIN points :
            Cardinality({j \in DOMAIN points : SameKey(i, j) /\ traces[j].showlegend}) = 1

\* C4 (amended): for every legend key among the points, at most one of the
\* traces of the points with that key has showlegend = True: exactly one
\* when some point with that key has hide_in_legend unset, none when all of
\* them have it set.
C4_OneShownUnlessAllHidden ==
    pc = "done" =>
        \A i \in DOMAIN points :
            Cardinality({j \in DOMAIN points : SameKey(i, j) /\ traces[j].showlegend})
              = IF \E j \in DOMAIN points : SameKey(i, j) /\ ~points[j].hide_in_legend
                THEN 1 ELSE 0

\* two points of one key, neither hidden, and a key all of whose points are
\* hidden
C4_Witness ==
    /\ pc = "done"
    /\ \E i, j \in DOMAIN points :
          i < j /\ SameKey(i, j) /\ ~points[i].hide_in_legend /\ ~points[j].hide_in_legend
    /\ \E i \in DOMAIN points :
          \A j \in DOMAIN points : SameKey(i, j) => points[j].hide_in_legend

\* the strings that list the names of S in ascending order
Ascending(S) ==
    {s \in [1..Cardinality(S) -> S] :
        \A a, b \in 1..Cardinality(S) : a < b => StrLess(s[a], s[b])}

RECURSIVE CommaJoined(_)
CommaJoined(s) ==
    IF Len(s) = 0 THEN <<>>
    ELSE IF Len(s) = 1 THEN s[1]
    ELSE CommaJoined(SubSeq(s, 1, Len(s) - 1)) \o <<44, 32>> \o s[Len(s)]

\* the reference label of the key of point i: the distinct names of all the
\* points with that key, sorted, joined with ", ", after "<group>: " when the
\* group is a non-empty string
ReferenceLabels(i) ==
    {(IF points[i].group.has /\ Len(points[i].group.text) > 0
      THEN points[i].group.text \o <<58, 32>> ELSE <<>>) \o CommaJoined(s) :
        s \in Ascending({points[j].name : j \in {m \in DOMAIN points : SameKey(i, m)}})}

\* C5: the name of every trace shown in the legend is the reference label of
\* its key, and when that label is longer than 60 characters, its first 60
\* characters followed by "..." (63 characters in all).
C5_LegendName ==
    pc = "done" =>
        \A i \in DOMAIN points :
            traces[i].showlegend =>
                /\ Cardinality(ReferenceLabels(i)) = 1
                /\ \A ref \in ReferenceLabels(i) :
                      IF Len(ref) > 60
                      THEN /\ Len(traces[i].name) = 63
                           /\ SubSeq(traces[i].name, 1, 60) = SubSeq(ref, 1, 60)
                           /\ SubSeq(traces[i].name, 61, 63) = <<46, 46, 46>>
                      ELSE traces[i].name = ref

\* a shown trace with a cropped label, of a key with a group and with a
\* hidden point whose name is part of the label
C5_Witness ==
    /\ pc = "done"
    /\ \E i, j \in DOMAIN points :
          /\ traces[i].showlegend
          /\ Len(traces[i].name) = 63
          /\ points[i].group.has
          /\ SameKey(i, j)
          /\ points[j].hide_in_legend
          /\ points[j].name # points[i].name

\* the points annotated after the step if it used threshold k/5: those
\* annotated beforehand and the candidates beyond k/5, each counted once
FinalCount(k) == Cardinality(AnnotatedIdx(before) \cup BeyondBefore(k))

\* C6 (as stated): when the scan runs, and some threshold of the range gives
\* a final annotated count (each point counted once) of at most 10, no
\* smaller threshold of the range than the one used does so.
C6_SmallestByFinalCount ==
    (SelectorDone /\ Scanned /\ \E k \in Range : FinalCount(k) <= 10) =>
        \A k \in Range : k < threshold => FinalCount(k) > 10

\* C6 (amended): when the scan runs, the threshold used is the smallest of
\* the range for which n_annotated + outlier_count <= 10, where outlier_count
\* counts every candidate beyond the threshold, those annotated beforehand
\* included (such a point is counted twice): no smaller threshold of the
\* range satisfies it, and the one used does whenever one of the range does.
C6_SmallestBySum ==
    (SelectorDone /\ Scanned) =>
        /\ \A k \in Range :
              k < threshold =>
                  Cardinality(AnnotatedIdx(before)) + Cardinality(BeyondBefore(k)) > 10
        /\ (\E k \in Range :
               Cardinality(AnnotatedIdx(before)) + Cardinality(BeyondBefore(k)) <= 10)
           => /\ threshold \in Range
              /\ Cardinality(AnnotatedIdx(before)) + Cardinality(BeyondBefore(threshold)) <= 10

\* the scan passed 1.0 and stopped at a larger threshold, with a point
\* annotated beforehand among the candidates beyond 1.0
C6_Witness ==
    /\ SelectorDone
    /\ branch = "break"
    /\ threshold > ThresholdStart
    /\ AnnotatedIdx(before) \cap BeyondBefore(ThresholdStart) # {}

\* C7: when no threshold of the range 1.0, 1.2, ..., 6.0 satisfies
\* n_annotated + outlier_count <= 10, the candidates that receive an
\* annotation are exactly the outliers counted at the last step of the scan.
C7_AnnotatesLastCounted ==
    (/\ SelectorDone
     /\ Scanned
     /\ \A k \in Range :
           Cardinality(AnnotatedIdx(before)) + Cardinality(BeyondBefore(k)) > 10) =>
        \A i \in DOMAIN before :
            before[i].annotate # FALSE =>
                IF i \in BeyondBefore(tried[Len(tried)])
                THEN points[i].annotation = [has |-> TRUE, text |-> before[i].name]
                ELSE points[i].annotation = before[i].annotation

\* C8: the annotation of the outliers (lines 107-111) overwrites nothing:
\* every point that carried an annotation before the step, a candidate beyond
\* the chosen threshold included, carries the same annotation text after it.
C8_TextKept ==
    Scanned =>
        \A i \in AnnotatedIdx(before) : points[i].annotation = before[i].annotation

\* C9 (as stated): a trace shown in the legend belongs to the first point of
\* the dataset having its key, and no later point with that key is shown.
C9_FirstOfKeyShown ==
    pc = "done" =>
        \A i \in DOMAIN points :
            traces[i].showlegend =>
                /\ \A j \in DOMAIN points : j < i => ~SameKey(i, j)
                /\ \A j \in DOMAIN points : (j > i /\ SameKey(i, j)) => ~traces[j].showlegend

\* C9 (amended): a trace shown in the legend belongs to the first point, in
\* the dataset's order, among the points having its key whose hide_in_legend
\* is unset, and no later point with that key is shown.
C9_FirstUnhiddenOfKeyShown ==
    pc = "done" =>
        \A i \in DOMAIN points :
            traces[i].showlegend =>
                /\ ~points[i].hide_in_legend
                /\ \A j \in DOMAIN points :
                      (j < i /\ SameKey(i, j)) => points[j].hide_in_legend
                /\ \A j \in DOMAIN points : (j > i /\ SameKey(i, j)) => ~traces[j].showlegend

\* three points of one key: the first hidden, the second shown, the third
\* neither hidden nor shown
C9_Witness ==
    /\ pc = "done"
    /\ \E i, j, k \in DOMAIN points :
          /\ i < j /\ j < k /\ SameKey(i, j) /\ SameKey(j, k)
          /\ points[i].hide_in_legend
          /\ traces[j].showlegend
          /\ ~points[k].hide_in_legend /\ ~traces[k].showlegend

\* C10: a call of create_figure on the points as an earlier call left them
\* adds no annotation and changes no annotation text.
C10_SecondRunChangesNothing ==
    reran => \A i \in DOMAIN points : points[i].annotation = before[i].annotation

\* the earlier call annotated by a threshold; this call started from more
\* annotated points and settled on a larger threshold
C10_Witness ==
    /\ reran
    /\ SelectorDone
    /\ branch = "break"
    /\ prev.branch = "break"
    /\ n_before > prev.n
    /\ threshold > prev.threshold

====
